---- MODULE Spec2Model ----
(***************************************************************************)
(* Sobel edge filter of projects/sobel/src/main.rs.                        *)
(*                                                                         *)
(* A GrayImage is a record [w, h, data] with data[x][y] an 8-bit sample.   *)
(* The f32 arithmetic of the program is modelled bit-exactly: an f32 is a  *)
(* record [s, m, e] of value (-1)^s * m * 2^e with m = 0 or                *)
(* 2^23 <= m < 2^24, and every operation rounds to nearest, ties to even.  *)
(* No value of the program comes near the subnormal or the overflow range  *)
(* (non-zero magnitudes lie between 2^-70 and 2^11), so the exponent is    *)
(* left unbounded.                                                         *)
(***************************************************************************)
EXTENDS Integers, Sequences, FiniteSets, TLC

-----------------------------------------------------------------------------
(* f32 *)

RECURSIVE Pow2Rec(_)
Pow2Rec(n) == IF n = 0 THEN 1 ELSE 2 * Pow2Rec(n - 1)

\* 2^n for the shifts of a 32-bit word
Pow2Table == [n \in 0 .. 30 |-> Pow2Rec(n)]
Pow2(n) == Pow2Table[n]

\* x shifted right by d bits, the bits shifted out or-ed into the last bit
ShiftRightJam(x, d) ==
    LET p == Pow2(d)
        q == x \div p
    IN  IF x % p # 0 /\ q % 2 = 0 THEN q + 1 ELSE q

F32Zero == [s |-> 0, m |-> 0, e |-> 0]

\* Rounds x * 2^e (x > 0 carrying at least two bits below the 24 kept, the
\* last one sticky) to the nearest f32, ties to even.
RECURSIVE F32Round(_, _, _)
F32Round(s, x, e) ==
    IF x = 0 THEN F32Zero
    ELSE IF x >= 134217728 THEN F32Round(s, ShiftRightJam(x, 1), e + 1)
    ELSE IF x < 67108864 THEN F32Round(s, 2 * x, e - 1)
    ELSE LET sig == x \div 8
             low == x % 8
             up  == IF low > 4 \/ (low = 4 /\ sig % 2 = 1) THEN 1 ELSE 0
         IN  IF sig + up = 16777216
             THEN [s |-> s, m |-> 8388608, e |-> e + 4]
             ELSE [s |-> s, m |-> sig + up, e |-> e + 3]

\* `as f32` of an integer of small magnitude (exact)
F32FromInt(i) == IF i < 0 THEN F32Round(1, -i, 0) ELSE F32Round(0, i, 0)

\* a * b
F32Mul(a, b) ==
    IF a.m = 0 \/ b.m = 0 THEN F32Zero
    ELSE LET ah == a.m \div 4096
             al == a.m % 4096
             bh == b.m \div 4096
             bl == b.m % 4096
             hl == ah * bl + al * bh
             t  == al * bl + (hl % 4096) * 4096
             lo == t % 16777216
             hi == ah * bh + hl \div 4096 + t \div 16777216
             x  == hi * 8 + ShiftRightJam(lo, 21)
         IN  F32Round((a.s + b.s) % 2, x, a.e + b.e + 21)

\* a + b
F32Add(a, b) ==
    IF a.m = 0 THEN b
    ELSE IF b.m = 0 THEN a
    ELSE LET aBig  == a.e > b.e \/ (a.e = b.e /\ a.m >= b.m)
             big   == IF aBig THEN a ELSE b
             small == IF aBig THEN b ELSE a
             d     == big.e - small.e
             A     == big.m * 8
             B     == IF d > 27 THEN 1 ELSE ShiftRightJam(small.m * 8, d)
             x     == IF big.s = small.s THEN A + B ELSE A - B
         IN  F32Round(big.s, x, big.e - 3)

RECURSIVE LongDiv(_, _, _, _)
LongDiv(r, b, n, q) ==
    IF n = 0 THEN <<q, r>>
    ELSE IF 2 * r >= b THEN LongDiv(2 * r - b, b, n - 1, 2 * q + 1)
    ELSE LongDiv(2 * r, b, n - 1, 2 * q)

\* a / b, b # 0
F32Div(a, b) ==
    IF a.m = 0 THEN F32Zero
    ELSE LET qr == LongDiv(a.m % b.m, b.m, 26, a.m \div b.m)
             x  == IF qr[2] # 0 /\ qr[1] % 2 = 0 THEN qr[1] + 1 ELSE qr[1]
         IN  F32Round((a.s + b.s) % 2, x, a.e - b.e - 26)

RECURSIVE SqrtDigits(_, _, _, _)
SqrtDigits(r0, i, rem, root) ==
    IF i = 27 THEN <<root, rem>>
    ELSE LET pair == IF i < 13 THEN (r0 \div Pow2(2 * (12 - i))) % 4 ELSE 0
             rm   == 4 * rem + pair
             tr   == 4 * root + 1
         IN  IF rm >= tr THEN SqrtDigits(r0, i + 1, rm - tr, 2 * root + 1)
             ELSE SqrtDigits(r0, i + 1, rm, 2 * root)

\* a.sqrt(), a >= 0
F32Sqrt(a) ==
    IF a.m = 0 THEN F32Zero
    ELSE LET even == a.e % 2 = 0
             r0   == IF even THEN a.m ELSE 2 * a.m
             ex   == IF even THEN a.e ELSE a.e - 1
             rr   == SqrtDigits(r0, 0, 0, 0)
             x    == IF rr[2] # 0 /\ rr[1] % 2 = 0 THEN rr[1] + 1 ELSE rr[1]
         IN  F32Round(0, x, (ex \div 2) - 14)

\* a as u8: truncation toward zero inside 0..255; outside that range the
\* cast was undefined behaviour in the Rust of this program's time (it
\* saturates since Rust 1.45), so every sample is a possible outcome.
F32ToU8(a) ==
    IF a.m = 0 THEN {0}
    ELSE IF a.e < -23 THEN {0}
    ELSE IF a.s = 1 \/ a.e > -16 THEN 0 .. 255
    ELSE {a.m \div Pow2(-a.e)}

-----------------------------------------------------------------------------
(* GrayImage and the boundary-extended accessor *)

MaxI32 == 2147483647
MinI32 == -MaxI32 - 1
U8 == 0 .. 255

Min(a, b) == IF a < b THEN a ELSE b
Max(a, b) == IF a > b THEN a ELSE b

\* u as i32, for a u32 u
AsI32(u) == IF u <= MaxI32 THEN u ELSE (u - MaxI32 - 1) + MinI32

\* Wrap-around in place of the clamp
ClampX_wrap(img, x) == IF img.w = 0 THEN -1 ELSE x % img.w

\* x.max(0).min(self.width() as i32 - 1)
ClampX(img, x) == Min(Max(x, 0), AsI32(img.w) - 1)
\* The clamp without its .max(0)
ClampY_noFloor(img, y) == Min(y, AsI32(img.h) - 1)

\* y.max(0).min(self.height() as i32 - 1)
ClampY(img, y) == Min(Max(y, 0), AsI32(img.h) - 1)

\* The bounds check of GrayImage::get_pixel and put_pixel on the coordinates
\* cast to u32 (a negative i32 casts to 2^31 or more: out of bounds); the
\* call panics when it fails.
InBounds(img, cx, cy) == cx \in 0 .. img.w - 1 /\ cy \in 0 .. img.h - 1

AccessPanics(img, x, y) == ~InBounds(img, ClampX(img, x), ClampY(img, y))

\* The literals 255.0 and 8.0
F255 == F32FromInt(255)
F8 == F32FromInt(8)

\* sample as f32 / 255.0, for every sample
NormalizedTable == [sample \in U8 |-> F32Div(F32FromInt(sample), F255)]
Normalized(sample) == NormalizedTable[sample]

\* defined when ~AccessPanics(img, x, y)
get_pixel_luma_extended(img, x, y) ==
    Normalized(img.data[ClampX(img, x)][ClampY(img, y)])

\* (luma * 255.0) as u8: the samples the cast can produce
LumaToU8(luma) == F32ToU8(F32Mul(luma, F255))

\* The images put_pixel_luma_extended can leave, when ~AccessPanics(img, x, y)
put_pixel_luma_extended(img, x, y, luma) ==
    {[img EXCEPT !.data[ClampX(img, x)][ClampY(img, y)] = sample] :
        sample \in LumaToU8(luma)}

-----------------------------------------------------------------------------
(* Kernels, convolution, magnitude *)

\* A kernel of f32 from its weights
Kernel(weights) ==
    [i \in 1 .. 3 |-> [j \in 1 .. 3 |-> F32FromInt(weights[i][j])]]

WeightsX == <<<<-1, -2, -1>>, <<0, 0, 0>>, <<1, 2, 1>>>>
WeightsY == <<<<-1, 0, 1>>, <<-2, 0, 2>>, <<-1, 0, 1>>>>

\* The X kernel laid out like the Y kernel
SOBEL_KERNEL_X_transposed == Kernel(WeightsY)

\* The Y kernel with one weight mistyped: its weights no longer sum to 0
SOBEL_KERNEL_Y_unbalanced ==
    Kernel(<<<<-1, 0, 1>>, <<-2, 0, 2>>, <<-1, 0, 2>>>>)

SOBEL_KERNEL_X == Kernel(WeightsX)
SOBEL_KERNEL_Y == Kernel(WeightsY)

\* The nine products kernel * input in the order flat_map yields them
Products(kernel, pixels) ==
    [k \in 1 .. 9 |->
        F32Mul(kernel[((k - 1) \div 3) + 1][((k - 1) % 3) + 1],
               pixels[((k - 1) \div 3) + 1][((k - 1) % 3) + 1])]

\* Iterator::sum over f32: a left fold of + from zero
RECURSIVE SumF32(_, _, _)
SumF32(seq, k, acc) ==
    IF k > Len(seq) THEN acc ELSE SumF32(seq, k + 1, F32Add(acc, seq[k]))

\* The sum without the division by 8.0
convolve_unnormalized(kernel, pixels) ==
    SumF32(Products(kernel, pixels), 1, F32Zero)

convolve(kernel, pixels) ==
    F32Div(SumF32(Products(kernel, pixels), 1, F32Zero), F8)

\* The window the driver gathers around (x, y): pixels[i][j] is the read at
\* (x + i - 2, y + j - 2)
Window(img, x, y) ==
    [i \in 1 .. 3 |-> [j \in 1 .. 3 |->
        get_pixel_luma_extended(img, x + i - 2, y + j - 2)]]

WindowPanics(img, x, y) ==
    \E i \in 1 .. 3, j \in 1 .. 3 : AccessPanics(img, x + i - 2, y + j - 2)

\* (gradient_x.powi(2) + gradient_y.powi(2)).sqrt()
Magnitude(pixels) ==
    LET gradient_x == convolve(SOBEL_KERNEL_X, pixels)
        gradient_y == convolve(SOBEL_KERNEL_Y, pixels)
    IN  F32Sqrt(F32Add(F32Mul(gradient_x, gradient_x),
                       F32Mul(gradient_y, gradient_y)))

\* A copy with width and height exchanged
clone_transposed(img) ==
    [w |-> img.h, h |-> img.w,
     data |-> [cx \in 0 .. img.h - 1 |-> [cy \in 0 .. img.w - 1 |->
                    img.data[cy][cx]]]]

\* input.clone()
clone(img) == [w |-> img.w, h |-> img.h, data |-> img.data]

\* The window read from the image being written
GatherPixels_fromResult(inp, res, cx, cy) == Window(res, cx, cy)

\* let pixels = [[input.get_pixel_luma_extended(x - 1, y - 1), ...], ...]:
\* the window of the loop body at (cx, cy), read from the input and not from
\* the result being written
GatherPixels(inp, res, cx, cy) == Window(inp, cx, cy)

\* result sharing its samples with input instead of owning a copy
WriteBack_aliased(inp, res, cx, cy, luma) ==
    {[input |-> r, result |-> r] :
        r \in put_pixel_luma_extended(res, cx, cy, luma)}

\* result.put_pixel_luma_extended(x, y, magnitude): what the call can leave
\* in the two images
WriteBack(inp, res, cx, cy, luma) ==
    {[input |-> inp, result |-> r] :
        r \in put_pixel_luma_extended(res, cx, cy, luma)}

\* A range that includes its end, 0..=n
InRange_inclusive(i, n) == i <= n

\* i is in the range 0..n a for loop runs over, i counting up from 0
InRange(i, n) == i < n

-----------------------------------------------------------------------------
(* Inputs *)

MaxW == 4
MaxH == 3
PalW == 2
PalH == 2
ParW == 2
ParH == 2

\* The images of width w and height h with samples in S
Images(w, h, S) ==
    {[w |-> w, h |-> h, data |-> d] : d \in [0 .. w - 1 -> [0 .. h - 1 -> S]]}

Palettes == {{0, 255}, {1, 3}}

\* An empty Vec and no dimensions: the value of result before the clone
NoImage == [w |-> 0, h |-> 0, data |-> <<>>]

\* The images without a pixel: width 0 or height 0
EmptyGrids ==
    UNION {Images(d[1], d[2], U8) :
        d \in {e \in (0 .. MaxW) \X (0 .. MaxH) : e[1] = 0 \/ e[2] = 0}}

UniformGrids ==
    UNION {Images(w, h, {v}) : w \in 1 .. PalW, h \in 1 .. PalH, v \in U8}

\* Columns left of the middle 0, the others 255
HalfGrids ==
    {[w |-> w, h |-> h,
      data |-> [x \in 0 .. w - 1 |-> [y \in 0 .. h - 1 |->
                    IF x < w \div 2 THEN 0 ELSE 255]]] :
        w \in {v \in 2 .. MaxW : v % 2 = 0}, h \in 1 .. MaxH}

PaletteGrids ==
    UNION {Images(w, h, S) : w \in 1 .. PalW, h \in 1 .. PalH, S \in Palettes}

\* Every window of extreme samples, as the 3 x 3 image whose centre has it
ContrastGrids == Images(3, 3, {0, 255})

InputGrids ==
    EmptyGrids \cup UniformGrids \cup HalfGrids \cup PaletteGrids
        \cup ContrastGrids

\* A few images of every size up to ParW x ParH: a checkerboard of 0 and
\* 255, a step from 1 to 3, samples that all differ
PatternGrids ==
    UNION {
        {[w |-> w, h |-> h,
          data |-> [cx \in 0 .. w - 1 |-> [cy \in 0 .. h - 1 |->
                IF (cx + cy) % 2 = 0 THEN 0 ELSE 255]]],
         [w |-> w, h |-> h,
          data |-> [cx \in 0 .. w - 1 |-> [cy \in 0 .. h - 1 |->
                IF cx = 0 THEN 1 ELSE 3]]],
         [w |-> w, h |-> h,
          data |-> [cx \in 0 .. w - 1 |-> [cy \in 0 .. h - 1 |->
                (37 * cx + 101 * cy + 5) % 256]]]} :
        w \in 1 .. ParW, h \in 1 .. ParH}

\* Coordinates an accessor call is tried with: any i32
ExtCoords == {MinI32, -2, -1, MaxI32} \cup (0 .. ParW + 1)

\* 0.0, 1/255, 0.5, 254.5/255 rounded, 1.0
Lumas ==
    {F32Zero, Normalized(1), F32Div(F32FromInt(1), F32FromInt(2)),
     F32Div(F32FromInt(509), F32FromInt(510)), F32FromInt(1)}

-----------------------------------------------------------------------------
(* sobel_filter as a state machine *)

VARIABLES
    input,      \* the image sobel_filter borrows
    result,     \* the image it builds and returns
    pc,         \* "call", "outer", "inner", "return", "done", "panicked";
                \* "access", "accessed" for a lone accessor call;
                \* "any" for the loop body run in an arbitrary order
    x, y,       \* the loop counters
    pixels,     \* the window of the last pass of the loop body
    magnitude,  \* its magnitude
    visited,    \* the coordinates the loop body has run at
    reads,      \* the number of get_pixel_luma_extended calls made
    writes,     \* the number of put_pixel_luma_extended calls made
    acc,        \* the last lone accessor call
    work        \* per worker, the pass of the loop body it is in the middle of

vars == <<input, result, pc, x, y, pixels, magnitude, visited, reads, writes,
          acc, work>>

NoWindow == [i \in 1 .. 3 |-> [j \in 1 .. 3 |-> F32Zero]]
NoCall == [op |-> "none", x |-> 0, y |-> 0, luma |-> F32Zero]

WorkerIds == {"a", "b"}
Idle == [busy |-> FALSE, at |-> <<0, 0>>, luma |-> F32Zero]
NoWork == [k \in WorkerIds |-> Idle]

Init ==
    /\ input \in InputGrids
    /\ result = NoImage
    /\ pc = "call"
    /\ x = 0
    /\ y = 0
    /\ pixels = NoWindow
    /\ magnitude = F32Zero
    /\ visited = {}
    /\ reads = 0
    /\ writes = 0
    /\ acc = NoCall
    /\ work = NoWork

\* let mut result = input.clone();
Clone ==
    /\ pc = "call"
    /\ result' = clone(input)
    /\ x' = 0
    /\ pc' = "outer"
    /\ UNCHANGED <<input, y, pixels, magnitude, visited, reads, writes, acc,
                   work>>

\* for x in 0..(input.width() as i32)
OuterLoop ==
    /\ pc = "outer"
    /\ IF InRange(x, AsI32(input.w))
       THEN /\ y' = 0
            /\ pc' = "inner"
       ELSE /\ y' = y
            /\ pc' = "return"
    /\ UNCHANGED <<input, result, x, pixels, magnitude, visited, reads,
                   writes, acc, work>>

\* for y in 0..(input.height() as i32): the range is exhausted
InnerExit ==
    /\ pc = "inner"
    /\ ~InRange(y, AsI32(input.h))
    /\ x' = x + 1
    /\ pc' = "outer"
    /\ UNCHANGED <<input, result, y, pixels, magnitude, visited, reads,
                   writes, acc, work>>

\* The loop body at (x, y)
LoopBody ==
    /\ pc = "inner"
    /\ InRange(y, AsI32(input.h))
    /\ IF WindowPanics(input, x, y) \/ AccessPanics(result, x, y)
       THEN /\ pc' = "panicked"
            /\ UNCHANGED <<input, result, y, pixels, magnitude, visited,
                           reads, writes>>
       ELSE /\ pixels' = GatherPixels(input, result, x, y)
            /\ magnitude' = Magnitude(pixels')
            /\ \E out \in WriteBack(input, result, x, y, magnitude') :
                /\ input' = out.input
                /\ result' = out.result
            /\ visited' = visited \cup {<<x, y>>}
            /\ reads' = reads + 9
            /\ writes' = writes + 1
            /\ y' = y + 1
            /\ pc' = "inner"
    /\ UNCHANGED <<x, acc, work>>

\* result
Return ==
    /\ pc = "return"
    /\ pc' = "done"
    /\ UNCHANGED <<input, result, x, y, pixels, magnitude, visited, reads,
                   writes, acc, work>>

Next == Clone \/ OuterLoop \/ InnerExit \/ LoopBody \/ Return

Spec == Init /\ [][Next]_vars

-----------------------------------------------------------------------------
(* The accessor called on its own, with any coordinates *)

AccessGrids == EmptyGrids \cup PatternGrids

InitAccess ==
    /\ input \in AccessGrids
    /\ result = input
    /\ pc = "access"
    /\ x = 0
    /\ y = 0
    /\ pixels = NoWindow
    /\ magnitude = F32Zero
    /\ visited = {}
    /\ reads = 0
    /\ writes = 0
    /\ acc = NoCall
    /\ work = NoWork

\* input.get_pixel_luma_extended(ax, ay)
AccessGet ==
    /\ pc = "access"
    /\ \E ax \in ExtCoords, ay \in ExtCoords :
        IF AccessPanics(input, ax, ay)
        THEN /\ pc' = "panicked"
             /\ acc' = [op |-> "get", x |-> ax, y |-> ay, luma |-> F32Zero]
             /\ reads' = reads
        ELSE /\ pc' = "accessed"
             /\ acc' = [op |-> "get", x |-> ax, y |-> ay,
                        luma |-> get_pixel_luma_extended(input, ax, ay)]
             /\ reads' = reads + 1
    /\ UNCHANGED <<input, result, x, y, pixels, magnitude, visited, writes,
                   work>>

\* result.put_pixel_luma_extended(ax, ay, luma)
AccessPut ==
    /\ pc = "access"
    /\ \E ax \in ExtCoords, ay \in ExtCoords, luma \in Lumas :
        IF AccessPanics(result, ax, ay)
        THEN /\ pc' = "panicked"
             /\ acc' = [op |-> "put", x |-> ax, y |-> ay, luma |-> luma]
             /\ UNCHANGED <<result, writes>>
        ELSE /\ pc' = "accessed"
             /\ acc' = [op |-> "put", x |-> ax, y |-> ay, luma |-> luma]
             /\ result' \in put_pixel_luma_extended(result, ax, ay, luma)
             /\ writes' = writes + 1
    /\ UNCHANGED <<input, x, y, pixels, magnitude, visited, reads, work>>

NextAccess == AccessGet \/ AccessPut

SpecAccess == InitAccess /\ [][NextAccess]_vars

-----------------------------------------------------------------------------
(* The loop body run by two workers that own disjoint coordinates, each    *)
(* in any order, a pass being a gather step and a write step               *)

Coords(img) == (0 .. img.w - 1) \X (0 .. img.h - 1)

\* The partition of the coordinates among the workers
Owner(c) == IF (c[1] + c[2]) % 2 = 0 THEN "a" ELSE "b"

InitWorkers ==
    /\ input \in PatternGrids
    /\ result = NoImage
    /\ pc = "call"
    /\ x = 0
    /\ y = 0
    /\ pixels = NoWindow
    /\ magnitude = F32Zero
    /\ visited = {}
    /\ reads = 0
    /\ writes = 0
    /\ acc = NoCall
    /\ work = NoWork

\* let mut result = input.clone(), then the workers start
Fork ==
    /\ pc = "call"
    /\ result' = clone(input)
    /\ pc' = "any"
    /\ UNCHANGED <<input, x, y, pixels, magnitude, visited, reads, writes,
                   acc, work>>

\* Worker k runs the loop body at a coordinate of its own up to the
\* magnitude
Gather(k) ==
    /\ pc = "any"
    /\ ~work[k].busy
    /\ \E c \in Coords(input) \ visited :
        /\ Owner(c) = k
        /\ work' = [work EXCEPT ![k] =
                [busy |-> TRUE, at |-> c,
                 luma |-> Magnitude(GatherPixels(input, result, c[1], c[2]))]]
    /\ reads' = reads + 9
    /\ UNCHANGED <<input, result, pc, x, y, pixels, magnitude, visited,
                   writes, acc>>

\* Worker k writes the magnitude it computed
Write(k) ==
    /\ pc = "any"
    /\ work[k].busy
    /\ \E out \in WriteBack(input, result, work[k].at[1], work[k].at[2],
                            work[k].luma) :
        /\ input' = out.input
        /\ result' = out.result
    /\ visited' = visited \cup {work[k].at}
    /\ writes' = writes + 1
    /\ work' = [work EXCEPT ![k] = Idle]
    /\ UNCHANGED <<pc, x, y, pixels, magnitude, reads, acc>>

\* Every coordinate is written: result is returned
Join ==
    /\ pc = "any"
    /\ visited = Coords(input)
    /\ \A k \in WorkerIds : ~work[k].busy
    /\ pc' = "done"
    /\ UNCHANGED <<input, result, x, y, pixels, magnitude, visited, reads,
                   writes, acc, work>>

NextWorkers ==
    \/ Fork
    \/ \E k \in WorkerIds : Gather(k)
    \/ \E k \in WorkerIds : Write(k)
    \/ Join

SpecWorkers == InitWorkers /\ [][NextWorkers]_vars

-----------------------------------------------------------------------------
(* The claims *)

Sample(img, c) == img.data[c[1]][c[2]]

\* The raw sample of the clamp-to-edge neighbour at (cx, cy)
EdgeIndex(i, n) == IF i < 0 THEN 0 ELSE IF i > n - 1 THEN n - 1 ELSE i
EdgeSample(img, cx, cy) ==
    img.data[EdgeIndex(cx, img.w)][EdgeIndex(cy, img.h)]

\* The weighted sum of the nine raw neighbours of c, not normalised
RawSum(weights, img, c) ==
    LET t(i, j) == weights[i][j] * EdgeSample(img, c[1] + i - 2, c[2] + j - 2)
    IN  t(1, 1) + t(1, 2) + t(1, 3) + t(2, 1) + t(2, 2) + t(2, 3)
            + t(3, 1) + t(3, 2) + t(3, 3)

\* The largest m with (8 m)^2 <= GX^2 + GY^2
ExactSample(img, c) ==
    LET GX == RawSum(WeightsX, img, c)
        GY == RawSum(WeightsY, img, c)
        S  == GX * GX + GY * GY
    IN  CHOOSE m \in 0 .. 255 :
            (8 * m) * (8 * m) <= S /\ S < (8 * (m + 1)) * (8 * (m + 1))

\* a < 1.0 and a > 1.0, for a >= 0
BelowOne(a) == a.m = 0 \/ (a.s = 0 /\ a.e < -23)
AboveOne(a) ==
    a.m # 0 /\ a.s = 0 /\ (a.e > -23 \/ (a.e = -23 /\ a.m > 8388608))

Uniform(img) ==
    /\ img.w >= 1
    /\ img.h >= 1
    /\ \A c \in Coords(img) : Sample(img, c) = img.data[0][0]

HalfSplit(img) ==
    /\ img.w >= 2
    /\ img.w % 2 = 0
    /\ img.h >= 1
    /\ \A c \in Coords(img) :
        Sample(img, c) = IF c[1] < img.w \div 2 THEN 0 ELSE 255

\* C1: the sample sobel_filter stores at every coordinate it has passed is
\* 255 * sqrt(gx^2 + gy^2) truncated, in integers over the raw samples the
\* largest m with (8 m)^2 <= GX^2 + GY^2.
C1_StoredIsTruncatedExact ==
    \A c \in visited : Sample(result, c) = ExactSample(input, c)

\* C2: on an image whose samples are all equal, every sample sobel_filter
\* stores is 0, at the border and in the corners too.
C2_UniformGivesZero ==
    Uniform(input) =>
        /\ pc # "panicked"
        /\ \A c \in visited : Sample(result, c) = 0

C2_Witness ==
    /\ pc = "done"
    /\ Uniform(input)
    /\ input.w = 2
    /\ input.h = 2
    /\ input.data[0][0] = 255
    /\ visited = Coords(input)
    /\ \A c \in Coords(result) : Sample(result, c) = 0

\* C3: a read at any coordinates, out of range by any amount, returns the
\* sample at the coordinates clamped into the image, divided by 255 (a value
\* in [0, 1]); so the reads at (-1,-1), (-1,0) and (0,-1) return the sample
\* at (0,0).
C3_GetClampsToEdge ==
    (pc = "accessed" /\ acc.op = "get") =>
        /\ acc.luma = Normalized(EdgeSample(input, acc.x, acc.y))
        /\ acc.luma.s = 0
        /\ BelowOne(acc.luma) \/ acc.luma = F32FromInt(1)
        /\ (acc.x \in {-1, 0} /\ acc.y \in {-1, 0}) =>
                acc.luma = Normalized(input.data[0][0])

C3_Witness ==
    /\ pc = "accessed"
    /\ acc.op = "get"
    /\ acc.x = -1
    /\ acc.y = -1
    /\ input.w = 2
    /\ input.h = 2
    /\ input.data[0][0] = 5
    /\ input.data[1][1] = 143
    /\ acc.luma = Normalized(5)
    /\ acc.luma # F32Zero

\* C4: on an image of width 0 or height 0, sobel_filter never panics, never
\* stops before it returns, makes no accessor read and no write, and the
\* image it returns is empty with the width and height of the input.
C4_EmptyInputNoIteration ==
    (input.w = 0 \/ input.h = 0) =>
        /\ pc # "panicked"
        /\ pc # "done" => ENABLED Next
        /\ reads = 0
        /\ writes = 0
        /\ visited = {}
        /\ pc # "call" =>
            /\ result.w = input.w
            /\ result.h = input.h
            /\ Coords(result) = {}

C4_Witness ==
    /\ pc = "done"
    /\ input.w = 3
    /\ input.h = 0
    /\ x = 3
    /\ result.w = 3
    /\ result.h = 0
    /\ reads = 0

\* C5: on an image of even width whose left half is 0 and whose right half
\* is 255, every sample stored in the two columns next to the seam is 127
\* and every sample stored in another column is 0, in every row.
C5_HalfSplitSeam ==
    HalfSplit(input) =>
        \A c \in visited :
            Sample(result, c) =
                IF c[1] \in {input.w \div 2 - 1, input.w \div 2} THEN 127 ELSE 0

C5_Witness ==
    /\ pc = "done"
    /\ HalfSplit(input)
    /\ input.w = 4
    /\ input.h = 3
    /\ result.data[0][0] = 0
    /\ result.data[3][2] = 0
    /\ result.data[1][0] = 127
    /\ result.data[2][2] = 127
    /\ result.data[1][1] = 127

\* C6: from its creation on, result has the width and the height of the
\* input, and a column of that height for every x of that width.
C6_DimensionsPreserved ==
    pc # "call" =>
        /\ result.w = input.w
        /\ result.h = input.h
        /\ DOMAIN result.data = 0 .. input.w - 1
        /\ \A cx \in 0 .. input.w - 1 :
            DOMAIN result.data[cx] = 0 .. input.h - 1

C6_Witness ==
    /\ pc = "done"
    /\ input.w = 4
    /\ input.h = 3
    /\ writes = 12
    /\ result.w = 4
    /\ result.h = 3

\* C7: no step of sobel_filter changes the input image, neither a sample
\* nor a dimension.
C7_InputNeverMutated == [][input' = input]_vars

C7_Witness ==
    /\ pc = "done"
    /\ writes = 4
    /\ input.w = 2
    /\ input.h = 2
    /\ \E c \in Coords(input) : Sample(result, c) # Sample(input, c)

\* C8, as stated: some window of samples in [0, 1] has a magnitude above
\* 1.0 (the magnitude is maximal on a window of extreme samples).
C8_SomeWindowExceedsOne ==
    \E g \in ContrastGrids : AboveOne(Magnitude(Window(g, 1, 1)))

\* C8, amended: the magnitude the loop body computes is always below 1.0,
\* and the sample the write path stores for it is at most 142, inside the
\* range of the 8-bit cast.
C8_MagnitudeBelowOne ==
    /\ BelowOne(magnitude)
    /\ \A sample \in LumaToU8(magnitude) : sample <= 142
    /\ Cardinality(LumaToU8(magnitude)) = 1

C8_Witness ==
    /\ writes > 0
    /\ input.w = 3
    /\ input.h = 3
    /\ LumaToU8(magnitude) = {142}

\* C9, as stated: no accessor call panics, whatever the image and the
\* coordinates.
C9_AccessorNeverFails == pc # "panicked"

\* C9, amended: on an image of width >= 1 and height >= 1 no accessor call
\* panics, whatever the coordinates: the index is inside the image, and a
\* write changes that one sample and nothing else.
C9_NonEmptyAccessorNeverFails ==
    (input.w >= 1 /\ input.h >= 1) =>
        /\ pc # "panicked"
        /\ pc = "accessed" =>
            /\ InBounds(input, ClampX(input, acc.x), ClampY(input, acc.y))
            /\ result.w = input.w
            /\ result.h = input.h
            /\ \A c \in Coords(input) :
                Sample(result, c) # Sample(input, c) =>
                    /\ acc.op = "put"
                    /\ c = <<EdgeIndex(acc.x, input.w),
                             EdgeIndex(acc.y, input.h)>>

C9_Witness ==
    /\ pc = "accessed"
    /\ acc.op = "put"
    /\ acc.x = MinI32
    /\ acc.y = MaxI32
    /\ input.w = 2
    /\ input.h = 2
    /\ result.data[0][1] # input.data[0][1]
    /\ result.data[0][0] = input.data[0][0]

\* C10: whichever worker runs the loop body at whichever coordinate next,
\* a sample not yet written is the input's, and once every coordinate is
\* written each sample is the one computed from the input alone.
C10_OrderIndependent ==
    pc # "call" =>
        /\ \A c \in Coords(input) \ visited :
            Sample(result, c) = Sample(input, c)
        /\ pc = "done" =>
            \A c \in Coords(input) :
                {Sample(result, c)} =
                    LumaToU8(Magnitude(Window(input, c[1], c[2])))

C10_Witness ==
    /\ pc = "done"
    /\ input.w = 2
    /\ input.h = 2
    /\ writes = 4
    /\ \E c \in Coords(input) : Sample(result, c) # Sample(input, c)

====
